---- MODULE Spec2Model ----
(***************************************************************************)
(* YT-DLP Made Easy (src/main.py): the job runner _run_yt_dlp, the queue   *)
(* pump pump_queue, the clipboard watcher poll_clipboard and the argument  *)
(* builder start_download, as state machines.                              *)
(*                                                                         *)
(* A Python string is a sequence of characters: one-character TLA+         *)
(* strings, and multi-character atoms that stand for a run of characters   *)
(* no modelled operation looks inside and no input contains.  A line of    *)
(* the Line Queue is a record [head, job, n, text]: its first characters,  *)
(* the process (or thread) it comes from, its number, the rest of it.      *)
(***************************************************************************)
EXTENDS Integers, Sequences, FiniteSets, TLC

\* ------------------------------------------------------------- bounds
\* threads started by threaded_yt_dlp while the runner is explored
MaxJobs == 2
\* lines a child process writes before it exits
MaxLines == 2
\* "Skipped ..." lines start_download puts while jobs run
MaxSkips == 1
\* characters typed into the URL box
MaxText == 4
\* characters typed into the URL box while the clipboard is explored
MaxTyped == 2
\* presses of the Download button
MaxClicks == 1

VARIABLES
  \* ---- module globals (src/main.py 68-71)
  current_process,  \* 0 is None, j > 0 is the Popen handle of job j's child
  q,                \* the Line Queue
  pump_id,          \* id of the scheduled pump callback, "" is None
  clipboard_last,
  \* ---- the _run_yt_dlp threads and their child processes; job j is the
  \* j-th thread started:
  \*   args, post_hook  the thread's arguments ("" is falsy, as None is)
  \*   pc               the thread's position in _run_yt_dlp
  \*   rd               the process whose stdout / wait() the thread uses
  \*   logged           what the thread wrote to the log file
  \*   effects          the hook launches and notifications, in order
  \*   proc             the child: "none" | "run" | "exit"
  \*   written, taken   lines the child wrote to / lines read from its pipe
  job,
  lastSpawn,        \* the child process started last, 0 when none
  \* ---- the UI thread
  pumpPc,           \* "idle" | "test" | "after": position in pump_queue
  pending,          \* pump_queue callbacks scheduled with app.after
  output_box,       \* the log view
  quiet,            \* no runner thread was alive when this pump tick began
  skips,            \* "Skipped" lines put while jobs run
  hist,             \* every q.put so far, in order: [by, line]
  url_text,         \* content of the URL box (without Tk's final newline)
  form,             \* the other widgets start_download reads
  clicks,           \* presses of the Download button so far
  asked,            \* per URL line of the last press: what the probe and
                    \* the overwrite dialog answered
  built,            \* the argument lists the last press started threads with
  poll_after,       \* poll_clipboard callbacks scheduled with app.after
  polls,            \* parity of the poll_clipboard ticks run so far
  clip              \* what app.clipboard_get() did in the last tick

runnerVars == <<current_process, job, lastSpawn>>
pumpVars == <<pump_id, pumpPc, pending, output_box, quiet>>
queueVars == <<q, hist>>
formVars == <<url_text, form>>
clickVars == <<clicks, asked, built>>
pollVars == <<clipboard_last, poll_after, polls, clip>>

vars == <<runnerVars, pumpVars, queueVars, skips, formVars, clickVars,
          pollVars>>

None == 0
UI == 0

\* ------------------------------------------------------------- strings
Whitespace == {" ", "\n"}

RECURSIVE LStrip(_)
LStrip(s) ==
  IF s # <<>> /\ Head(s) \in Whitespace THEN LStrip(Tail(s)) ELSE s

RECURSIVE RStrip(_)
RStrip(s) ==
  IF s # <<>> /\ s[Len(s)] \in Whitespace
    THEN RStrip(SubSeq(s, 1, Len(s) - 1))
    ELSE s

\* str.strip()
Strip(s) == RStrip(LStrip(s))

\* str.rstrip(chars)
RECURSIVE RStripChars(_, _)
RStripChars(s, chars) ==
  IF s # <<>> /\ s[Len(s)] \in chars
    THEN RStripChars(SubSeq(s, 1, Len(s) - 1), chars)
    ELSE s

\* str.splitlines(): the text is cut at each newline; a final newline
\* starts no further line
RECURSIVE SplitLines(_)
SplitLines(s) ==
  IF s = <<>> THEN <<>>
  ELSE IF \E i \in 1..Len(s) : s[i] = "\n"
    THEN LET i == CHOOSE k \in 1..Len(s) :
                    s[k] = "\n" /\ \A m \in 1..(k - 1) : s[m] # "\n"
         IN <<SubSeq(s, 1, i - 1)>> \o SplitLines(SubSeq(s, i + 1, Len(s)))
    ELSE <<s>>

\* str.startswith(prefix)
StartsWith(s, prefix) ==
  /\ Len(s) >= Len(prefix)
  /\ \A i \in 1..Len(prefix) : s[i] = prefix[i]

\* ------------------------------------------------------------- lines
ErrorMarker == "[ERROR] "
\* the k-th line child c writes
ChildLine(c, k) == [head |-> "out", job |-> c, n |-> k, text |-> <<"\n">>]
\* f"[ERROR] {e}\n"
ErrorLine(j) == [head |-> ErrorMarker, job |-> j, n |-> 0, text |-> <<"e", "\n">>]
\* f"Skipped {url}\n"
SkippedLine(url) ==
  [head |-> "Skipped ", job |-> UI, n |-> 0, text |-> url \o <<"\n">>]

\* q.put of each of `lines`, in order, by thread `by`
PutAll(by, lines) ==
  /\ q' = q \o lines
  /\ hist' = hist \o [i \in 1..Len(lines) |-> [by |-> by, line |-> lines[i]]]

\* q.put(l) by thread `by`
Put(by, l) == PutAll(by, <<l>>)

\* ------------------------------------------------------------- runner
\* Steps of one thread that touch nothing another thread reads are joined to
\* the next step that does, so a thread's position is one of
\*   "spawn"   started, before subprocess.Popen
\*   "iter"    current_process assigned, before `current_process.stdout`
\*   "read"    inside the for loop
\*   "join"    inside current_process.wait()
\*   "except"  an exception was raised, before the handler's q.put
\*   "finally" before the finally clause
\*   "done"    returned
Jobs == 1..Len(job)

\* what no step of a runner thread or of a child process changes
runnerFrame == <<pumpVars, skips, formVars, clickVars, pollVars>>

\* a thread that threading.Thread(target=_run_yt_dlp, args=(args, post_hook))
\* has just started
NewThread(args, h) ==
  [args |-> args, post_hook |-> h, pc |-> "spawn", rd |-> None,
   logged |-> <<>>, effects |-> <<>>, proc |-> "none", written |-> 0,
   taken |-> 0]

\* threaded_yt_dlp(args, post_hook)
threaded_yt_dlp(args, h) == job' = Append(job, NewThread(args, h))

\* with open(log_file, "a") as lg: current_process = subprocess.Popen(...)
\* The call starts the child and its handle is stored, or it raises (a
\* missing executable) and control is in the except clause.
Spawn(j, ok) ==
  /\ job[j].pc = "spawn"
  /\ IF ok
       THEN /\ job' = [job EXCEPT ![j].proc = "run", ![j].pc = "iter"]
            /\ current_process' = j
            /\ lastSpawn' = j
       ELSE /\ job' = [job EXCEPT ![j].pc = "except"]
            /\ UNCHANGED <<current_process, lastSpawn>>
  /\ UNCHANGED <<queueVars, runnerFrame>>

\* for line in current_process.stdout: the global is read again; None has
\* no attribute stdout (AttributeError)
Iter(j) ==
  /\ job[j].pc = "iter"
  /\ job' = IF current_process = None
              THEN [job EXCEPT ![j].pc = "except"]
              ELSE [job EXCEPT ![j].pc = "read", ![j].rd = current_process]
  /\ UNCHANGED <<current_process, lastSpawn, queueVars, runnerFrame>>

\* one turn of the loop: the next line of the pipe, q.put(line),
\* lg.write(line)
ReadLine(j) ==
  /\ job[j].pc = "read"
  /\ LET c == job[j].rd
         l == ChildLine(c, job[c].taken + 1)
     IN /\ job[c].taken < job[c].written
        /\ Put(j, l)
        /\ job' = [[job EXCEPT ![c].taken = @ + 1]
                        EXCEPT ![j].logged = Append(@, l)]
  /\ UNCHANGED <<current_process, lastSpawn, runnerFrame>>

\* end of file (the child has exited and every line was read) ends the loop;
\* current_process.wait() reads the global a third time
Wait(j) ==
  /\ job[j].pc = "read"
  /\ LET c == job[j].rd
     IN job[c].taken = job[c].written /\ job[c].proc = "exit"
  /\ job' = IF current_process = None
              THEN [job EXCEPT ![j].pc = "except"]
              ELSE [job EXCEPT ![j].pc = "join", ![j].rd = current_process]
  /\ UNCHANGED <<current_process, lastSpawn, queueVars, runnerFrame>>

\* except Exception as e: q.put(f"[ERROR] {e}\n")
Except(j) ==
  /\ job[j].pc = "except"
  /\ Put(j, ErrorLine(j))
  /\ job' = [job EXCEPT ![j].pc = "finally"]
  /\ UNCHANGED <<current_process, lastSpawn, runnerFrame>>

\* if post_hook: subprocess.Popen(post_hook, shell=True), not waited for, an
\* exception of the launch passed over; then notification.notify(...), an
\* exception of the delivery passed over
PostEffects(h) == (IF h # "" THEN <<"hook">> ELSE <<>>) \o <<"notify">>

\* the finally clause without `current_process = None`
FinallyBodyKeepsHandle(j, hookOk, notifyOk) ==
  /\ job' = [job EXCEPT ![j].effects = @ \o PostEffects(job[j].post_hook),
                        ![j].pc = "done"]
  /\ UNCHANGED <<current_process, lastSpawn, queueVars, runnerFrame>>

\* finally: current_process = None, the hook, the notification; return
FinallyBody(j, hookOk, notifyOk) ==
  /\ current_process' = None
  /\ job' = [job EXCEPT ![j].effects = @ \o PostEffects(job[j].post_hook),
                        ![j].pc = "done"]
  /\ UNCHANGED <<lastSpawn, queueVars, runnerFrame>>

\* wait() returns when the process waited for has exited; the with block
\* closes the log and the finally clause runs
Join(j, hookOk, notifyOk) ==
  /\ job[j].pc = "join"
  /\ job[job[j].rd].proc = "exit"
  /\ FinallyBody(j, hookOk, notifyOk)

\* the finally clause after the except clause
Finally(j, hookOk, notifyOk) ==
  /\ job[j].pc = "finally"
  /\ FinallyBody(j, hookOk, notifyOk)

\* ------------------------------------------------------------- children
\* the child writes one more line to its stdout/stderr pipe
ChildWrite(c) ==
  /\ job[c].proc = "run"
  /\ job[c].written < MaxLines
  /\ job' = [job EXCEPT ![c].written = @ + 1]
  /\ UNCHANGED <<current_process, lastSpawn, queueVars, runnerFrame>>

\* the child exits, which closes its end of the pipe
ChildExit(c) ==
  /\ job[c].proc = "run"
  /\ job' = [job EXCEPT ![c].proc = "exit"]
  /\ UNCHANGED <<current_process, lastSpawn, queueVars, runnerFrame>>

\* ------------------------------------------------------------- pump
\* what no step of pump_queue changes
pumpFrame == <<runnerVars, skips, formVars, clickVars, pollVars>>

\* no _run_yt_dlp thread is alive
NoProducer == \A j \in Jobs : job[j].pc = "done"

\* Tk runs the callback app.after scheduled
PumpStart ==
  /\ pumpPc = "idle"
  /\ pending > 0
  /\ pending' = pending - 1
  /\ pumpPc' = "test"
  /\ quiet' = NoProducer
  /\ UNCHANGED <<pump_id, output_box, queueVars, pumpFrame>>

\* one turn of the loop that inserts the line at the start of the view
PumpLineAtStart ==
  /\ pumpPc = "test"
  /\ q # <<>>
  /\ q' = Tail(q)
  /\ output_box' = [output_box EXCEPT !.text = <<Head(q)>> \o @,
                                      !.see = Len(output_box.text) + 1]
  /\ UNCHANGED <<hist, pump_id, pumpPc, pending, quiet, pumpFrame>>

\* one turn of `while not q.empty()`: get a line, make the view writable,
\* insert the line at the end, scroll to the end, make the view read-only
PumpLine ==
  /\ pumpPc = "test"
  /\ q # <<>>
  /\ q' = Tail(q)
  /\ LET normal == [output_box EXCEPT !.state = "normal"]
         inserted == [normal EXCEPT !.text = Append(@, Head(q))]
         seen == [inserted EXCEPT !.see = Len(inserted.text)]
     IN output_box' = [seen EXCEPT !.state = "disabled"]
  /\ UNCHANGED <<hist, pump_id, pumpPc, pending, quiet, pumpFrame>>

\* the end of the loop, with the view made writable outside the loop
PumpExitTouchesView ==
  /\ pumpPc = "test"
  /\ q = <<>>
  /\ pumpPc' = "after"
  /\ output_box' = [output_box EXCEPT !.state = "normal"]
  /\ UNCHANGED <<pump_id, pending, quiet, queueVars, pumpFrame>>

\* q.empty() is true: the loop ends
PumpExit ==
  /\ pumpPc = "test"
  /\ q = <<>>
  /\ pumpPc' = "after"
  /\ UNCHANGED <<pump_id, pending, output_box, quiet, queueVars, pumpFrame>>

\* pump_id = app.after(100, pump_queue)
PumpAfter ==
  /\ pumpPc = "after"
  /\ pending' = pending + 1
  /\ pump_id' = "after"
  /\ pumpPc' = "idle"
  /\ UNCHANGED <<output_box, quiet, queueVars, pumpFrame>>

\* ------------------------------------------------------------- builder
yt_dlp_exe == <<"yt-dlp.exe">>
\* os.getcwd()
Cwd == <<"cwd">>
Best == <<"B", "e", "s", "t">>
\* values=["Best", "1080p", "720p", "480p"]
QualityValues ==
  {Best, <<"1", "0", "8", "0", "p">>, <<"7", "2", "0", "p">>,
   <<"4", "8", "0", "p">>}
\* values=["", "en", "es", "fr"]
SubsValues == {<<>>, <<"en">>, <<"es">>, <<"fr">>}

\* What the probe and the dialog answer for one URL:
\*   "noname"   get_expected_filename returns None (yt-dlp failed)
\*   "absent"   it returns a path and no such file exists
\*   "replace"  the file exists and ask_overwrite returns True
\*   "keep"     the file exists and ask_overwrite returns False
Outcomes == {"noname", "absent", "replace", "keep"}
Expected(o) == o # "noname"
Exists(o) == o \in {"replace", "keep"}
ask_overwrite(o) == o = "replace"

\* res = qstr.rstrip("p"), without the rstrip
ResolutionKeepsP(qstr) == qstr

\* res = qstr.rstrip("p")
Resolution(qstr) == RStripChars(qstr, {"p"})

\* audio vs video, with the format selector added in both branches
ModeArgsAlwaysFormat(f) ==
  (IF f.audio_var THEN <<<<"-", "x">>, <<"--audio-format">>, <<"mp3">>>>
                  ELSE <<>>)
    \o <<<<"-", "f">>, <<"bv*+ba/best">>>>

\* audio vs video
ModeArgs(f) ==
  IF f.audio_var
    THEN <<<<"-", "x">>, <<"--audio-format">>, <<"mp3">>>>
    ELSE IF f.quality_var # Best
      THEN <<<<"-", "f">>,
             <<"bestvideo[height<=">> \o Resolution(f.quality_var)
               \o <<"]+bestaudio/best">>>>
      ELSE <<<<"-", "f">>, <<"bv*+ba/best">>>>

\* the argument list of one URL (the body of the loop from `args = [...]`)
BuildArgs(url, folder, f) ==
  LET mode == ModeArgs(f)
      sub_lang == f.subs_var
      subs == IF sub_lang # <<>>
                THEN <<<<"--write-subs">>, <<"--sub-lang=">> \o sub_lang>>
                ELSE <<>>
      sponsor == IF f.sponsor_var
                   THEN <<<<"--sponsorblock-remove">>, <<"all">>>>
                   ELSE <<>>
      rate == Strip(f.rate_entry)
      proxy == Strip(f.proxy_entry)
      tpl == Strip(f.rename_entry)
  IN <<yt_dlp_exe, url, <<"-", "P">>, folder>> \o mode \o subs \o sponsor
       \o (IF rate # <<>> THEN <<<<"--limit-rate">>, rate>> ELSE <<>>)
       \o (IF proxy # <<>> THEN <<<<"--proxy">>, proxy>> ELSE <<>>)
       \o (IF tpl # <<>> THEN <<<<"-", "o">>, tpl>> ELSE <<>>)

\* url_text.get("1.0", "end").strip().splitlines()
UrlLines(text) == SplitLines(Strip(text \o <<"\n">>))

\* one turn of the loop without `if not url: continue`
TurnKeepsEmpty(url, o) ==
  IF Expected(o) /\ Exists(o) /\ ~ask_overwrite(o) THEN "skip" ELSE "job"

\* what one turn of the loop over urls does: nothing for an empty line,
\* a "Skipped" line when the file exists and the user keeps it, else a job
Turn(url, o) ==
  IF url = <<>> THEN "continue"
  ELSE IF Expected(o) /\ Exists(o) /\ ~ask_overwrite(o) THEN "skip"
  ELSE "job"

\* the Download button: start_download(), run to its end.  Nothing runs
\* on the UI thread meanwhile, so the pump is between two ticks.
start_download(env) ==
  \E urls \in {UrlLines(url_text)} :
  \E folder \in {IF Strip(form.folder_entry) # <<>>
                   THEN Strip(form.folder_entry)
                   ELSE Cwd} :
  \E turn \in {[i \in 1..Len(urls) |-> Turn(urls[i], env[i])]} :
    LET turns == [i \in 1..Len(urls) |-> i]
        jobs == SelectSeq(turns, LAMBDA i : turn[i] = "job")
        skipped == SelectSeq(turns, LAMBDA i : turn[i] = "skip")
        argLists == [k \in 1..Len(jobs) |-> BuildArgs(urls[jobs[k]], folder, form)]
    IN /\ pumpPc = "idle"
       /\ clicks < MaxClicks
       /\ env \in [1..Len(urls) -> Outcomes]
       /\ \A i \in 1..Len(urls) : urls[i] = <<>> => env[i] = "noname"
       /\ clicks' = clicks + 1
       /\ asked' = env
       /\ built' = argLists
       /\ PutAll(UI, [k \in 1..Len(skipped) |-> SkippedLine(urls[skipped[k]])])
       /\ job' = job \o [k \in 1..Len(argLists) |-> NewThread(argLists[k], "")]
       /\ UNCHANGED <<current_process, lastSpawn, pumpVars, skips, formVars,
                      pollVars>>

\* A UI callback starts one thread: one turn of start_download's loop
\* (line 227) or the Update button (line 323).  It runs on the UI thread,
\* between two pump ticks.
StartThread(args, h) ==
  /\ pumpPc = "idle"
  /\ Len(job) < MaxJobs
  /\ threaded_yt_dlp(args, h)
  /\ UNCHANGED <<current_process, lastSpawn, pumpVars, queueVars, skips,
                 formVars, clickVars, pollVars>>

\* One turn of start_download's loop that ends in q.put(f"Skipped {url}\n"),
\* while jobs started earlier run.
Skipped(url) ==
  /\ pumpPc = "idle"
  /\ skips < MaxSkips
  /\ skips' = skips + 1
  /\ Put(UI, SkippedLine(url))
  /\ UNCHANGED <<runnerVars, pumpVars, formVars, clickVars, pollVars>>

\* ------------------------------------------------------------- clipboard
Http == <<"h", "t", "t", "p">>

\* the test without `clip != clipboard_last`
ClipIsUrl(r) == r.ok /\ StartsWith(r.text, Http)

\* clip.startswith("http") and clip != clipboard_last, of a clipboard that
\* could be read
ClipIsNew(r) == r.ok /\ StartsWith(r.text, Http) /\ r.text # clipboard_last

\* poll_clipboard(): r is what app.clipboard_get() does, a text or an
\* exception (an empty clipboard, a clipboard that holds no text)
poll_clipboard(r) ==
  /\ poll_after > 0
  /\ IF ClipIsNew(r)
       THEN /\ url_text' = r.text
            /\ clipboard_last' = r.text
       ELSE UNCHANGED <<url_text, clipboard_last>>
  /\ poll_after' = (poll_after - 1) + 1
  /\ polls' = 1 - polls
  /\ clip' = r
  /\ UNCHANGED <<runnerVars, pumpVars, queueVars, skips, form, clickVars>>

\* the user edits the URL box
TypeUrl(t) ==
  /\ url_text' = t
  /\ UNCHANGED <<runnerVars, pumpVars, queueVars, skips, form, clickVars,
                 pollVars>>

\* ------------------------------------------------------------- inputs
\* every text of at most n characters of A
Texts(n, A) == UNION {[1..k -> A] : k \in 0..n}

UrlChars == {"a", "b", " ", "\n"}
TypedChars == {"a", "h", "\n"}

DefaultForm ==
  [folder_entry |-> <<>>, audio_var |-> FALSE, quality_var |-> Best,
   subs_var |-> <<>>, sponsor_var |-> FALSE, rate_entry |-> <<>>,
   proxy_entry |-> <<>>, rename_entry |-> <<>>]

Forms ==
  [folder_entry : {<<>>, <<"-", "f">>},
   audio_var : BOOLEAN,
   quality_var : QualityValues,
   subs_var : SubsValues,
   sponsor_var : BOOLEAN,
   rate_entry : {<<>>, <<" ">>, <<"5", "0", "0", "K">>, <<"-", "f">>},
   proxy_entry : {<<>>, <<"-", "x">>},
   rename_entry : {<<>>, <<"-", "f">>}]

ArgTexts == {<<"a">>, <<"a", "\n", "b">>, <<"-", "f">>, <<"-", "x">>}

ClipResults ==
  {[ok |-> FALSE, text |-> <<>>]} \cup
  [ok : {TRUE},
   text : {<<>>, <<"h", "t", "t">>, Http, Http \o <<"a">>, Http \o <<"b">>,
           <<"a">> \o Http, <<"H", "T", "T", "P">>}]

\* ------------------------------------------------------------- program
\* the state when mainloop() is entered, but for the URL box and the form
InitProgram ==
  /\ current_process = None
  /\ q = <<>>
  /\ pump_id = ""
  /\ clipboard_last = <<>>
  /\ job = <<>>
  /\ lastSpawn = 0
  /\ pumpPc = "idle"
  /\ pending = 1
  /\ output_box = [text |-> <<>>, state |-> "disabled", see |-> 0]
  /\ quiet = TRUE
  /\ skips = 0
  /\ hist = <<>>
  /\ clicks = 0
  /\ asked = <<>>
  /\ built = <<>>
  /\ poll_after = 1
  /\ polls = 0
  /\ clip = [ok |-> FALSE, text |-> <<>>]

Init ==
  /\ InitProgram
  /\ url_text = <<>>
  /\ form = DefaultForm

Runner(j) ==
  \/ \E ok \in BOOLEAN : Spawn(j, ok)
  \/ Iter(j)
  \/ ReadLine(j)
  \/ Wait(j)
  \/ Except(j)
  \/ \E hookOk, notifyOk \in BOOLEAN : Join(j, hookOk, notifyOk)
  \/ \E hookOk, notifyOk \in BOOLEAN : Finally(j, hookOk, notifyOk)

Pump == PumpStart \/ PumpLine \/ PumpExit \/ PumpAfter

\* the runner threads, their children and the pump
Next ==
  \/ \E h \in {"", "cmd"} : StartThread(<<yt_dlp_exe, <<"-", "U">>>>, h)
  \/ \E j \in Jobs : Runner(j)
  \/ \E c \in Jobs : ChildWrite(c)
  \/ \E c \in Jobs : ChildExit(c)
  \/ Pump
  \/ Skipped(<<"a">>)

Spec == Init /\ [][Next]_vars

\* the Tk main loop keeps running the callbacks app.after scheduled
FairSpec == Spec /\ WF_vars(Pump)

\* the Download button, over every text of the URL box
InitUrls ==
  /\ InitProgram
  /\ url_text \in Texts(MaxText, UrlChars)
  /\ form \in {DefaultForm, [DefaultForm EXCEPT !.audio_var = TRUE]}

\* the Download button, over every state of the form
InitArgs ==
  /\ InitProgram
  /\ url_text \in ArgTexts
  /\ form \in Forms

NextDownload ==
  \E env \in [1..Len(UrlLines(url_text)) -> Outcomes] : start_download(env)

SpecUrls == InitUrls /\ [][NextDownload]_vars

SpecArgs == InitArgs /\ [][NextDownload]_vars

\* the clipboard watcher and a user who edits the URL box
NextClip ==
  \/ \E r \in ClipResults : poll_clipboard(r)
  \/ \E t \in Texts(MaxTyped, TypedChars) : TypeUrl(t)

SpecClip == Init /\ [][NextClip]_vars

\* ------------------------------------------------------------- claims
\* the lines of a sequence of hist entries
LinesOf(h) == [i \in 1..Len(h) |-> h[i].line]
\* the lines thread `by` put on the queue, in order
PutsOf(by) == LinesOf(SelectSeq(hist, LAMBDA e : e.by = by))
\* the lines child c has written, in order
OutputOf(c) == [k \in 1..job[c].written |-> ChildLine(c, k)]
\* job j's Popen raised
SpawnFailed(j) ==
  job[j].proc = "none" /\ job[j].pc \in {"except", "finally", "done"}

\* C1: when a job has finished and its child wrote N lines and exited, the
\* lines the job put on q are exactly the child's N lines, each once and in
\* the order written, and so is what the job appended to the log file.
C1_JobForwardsItsChildsLines ==
  \A j \in Jobs :
    (job[j].pc = "done" /\ job[j].proc = "exit") =>
      /\ PutsOf(j) = OutputOf(j)
      /\ job[j].logged = OutputOf(j)

\* C2: current_process only ever reflects the most recently started job:
\* when it is non-empty it is the handle of the child started last, and
\* while that child runs and its runner has not reached its own finally
\* clause, no earlier job has emptied or replaced it.
C2_ReflectsMostRecentJob ==
  /\ current_process # None => current_process = lastSpawn
  /\ \A m \in Jobs :
       (m = lastSpawn /\ job[m].proc = "run"
          /\ job[m].pc \in {"iter", "read", "join"})
         => current_process = m

\* C3 as stated: a job whose spawn failed put exactly one line, the line
\* starts with the error marker, the runner finished, and current_process
\* is empty once it has finished.
C3_SpawnFailureLeavesHandleEmpty ==
  \A j \in Jobs :
    (SpawnFailed(j) /\ job[j].pc = "done") =>
      /\ Len(PutsOf(j)) = 1
      /\ PutsOf(j)[1].head = ErrorMarker
      /\ current_process = None

\* C3 amended: a job whose spawn failed puts nothing before its except
\* clause and exactly one line from then on, the line starts with the
\* error marker, and once the runner has finished current_process is empty
\* whenever no other job is between its own Popen and its own finally clause.
C3_SpawnFailureOneErrorLine ==
  \A j \in Jobs :
    /\ (SpawnFailed(j) /\ job[j].pc = "except") => PutsOf(j) = <<>>
    /\ (SpawnFailed(j) /\ job[j].pc \in {"finally", "done"}) =>
         /\ Len(PutsOf(j)) = 1
         /\ PutsOf(j)[1].head = ErrorMarker
    /\ (SpawnFailed(j) /\ job[j].pc = "done"
          /\ \A k \in Jobs \ {j} : job[k].pc \in {"spawn", "done"})
         => current_process = None

\* a job's spawn failed and the job has finished, after another job ran a
\* child to its end
C3_Witness ==
  \E j \in Jobs :
    /\ SpawnFailed(j) /\ job[j].pc = "done"
    /\ \E k \in Jobs \ {j} : job[k].pc = "done" /\ job[k].proc = "exit"

\* C4: the view followed by the queue is every line ever put, in the order
\* put (so each line reaches the view once, in order); only a turn of the
\* pump's loop takes a line off the queue; a tick that began with no runner
\* thread alive ends with the queue empty; the end of a tick leaves exactly
\* one callback scheduled; and under the main loop's fairness the view
\* holds every line put, again and again.
C4_PumpDeliversEveryLine ==
  /\ [](output_box.text \o q = LinesOf(hist))
  /\ [][\/ q' = q
        \/ Len(q') > Len(q) /\ SubSeq(q', 1, Len(q)) = q
        \/ /\ pumpPc = "test" /\ pumpPc' = "test"
           /\ q # <<>> /\ q' = Tail(q)
           /\ output_box'.text = Append(output_box.text, Head(q))]_vars
  /\ []((pumpPc = "after" /\ quiet) => q = <<>>)
  /\ []((pumpPc = "idle" => pending = 1) /\ (pumpPc # "idle" => pending = 0))
  /\ []<>(output_box.text = LinesOf(hist))

\* the view holds every line put: a child's line, an error line and a
\* skipped line among them
C4_Witness ==
  /\ q = <<>>
  /\ pumpPc = "idle"
  /\ \E i, k, m \in 1..Len(output_box.text) :
       /\ output_box.text[i].head = ErrorMarker
       /\ output_box.text[k].head = "Skipped "
       /\ output_box.text[m].head = "out"

\* C5: the view changes only in a turn of the pump's loop that found the
\* queue non-empty; every other step of a tick (the start, the test that
\* finds the queue empty, the rescheduling) changes nothing but the pump's
\* own position and schedule.
C5_EmptyTickLeavesViewAlone ==
  [][/\ output_box' # output_box => (pumpPc = "test" /\ q # <<>>)
     /\ (pumpPc' # pumpPc) =>
          /\ output_box' = output_box
          /\ UNCHANGED <<queueVars, pumpFrame>>]_vars

\* a second tick in a row has found the queue empty: nothing was ever put,
\* one tick has ended before, and this one is past its test
C5_Witness ==
  /\ hist = <<>>
  /\ pump_id = "after"
  /\ pumpPc = "after"
  /\ output_box = [text |-> <<>>, state |-> "disabled", see |-> 0]

\* C6: the hook and the notification do not happen while the job's child
\* runs, and a finished runner has launched the hook once when one is
\* present and then attempted one notification.
C6_HookAndNotifyAfterExit ==
  \A j \in Jobs :
    /\ job[j].effects # <<>> => job[j].proc # "run"
    /\ job[j].pc = "done" =>
         job[j].effects = (IF job[j].post_hook # "" THEN <<"hook", "notify">>
                                                    ELSE <<"notify">>)

\* The URL box as the claims read it: the text without the white space
\* around it, a line being a maximal run of characters other than newline.
Trimmed(t) ==
  LET keep == {i \in 1..Len(t) : t[i] \notin {" ", "\n"}}
  IN IF keep = {} THEN <<>>
     ELSE SubSeq(t, CHOOSE i \in keep : \A m \in keep : i <= m,
                    CHOOSE i \in keep : \A m \in keep : m <= i)
\* the positions where a non-empty line starts
LineStarts(t) ==
  {i \in 1..Len(t) : t[i] # "\n" /\ (i = 1 \/ t[i - 1] = "\n")}
\* the non-empty line that starts at position i
LineText(t, i) ==
  LET ends == {e \in i..Len(t) : \A m \in i..e : t[m] # "\n"}
  IN SubSeq(t, i, CHOOSE e \in ends : \A m \in ends : m <= e)
\* the number of the line (empty lines counted) that starts at position i
LineNo(t, i) == 1 + Cardinality({m \in 1..(i - 1) : t[m] = "\n"})
\* the place of i in the set S of numbers
Rank(S, i) == Cardinality({m \in S : m <= i})
\* occurrences of x in the list s
Count(x, s) == Cardinality({i \in 1..Len(s) : s[i] = x})

\* C7 as stated: after a press of Download, one job per non-empty line of
\* the input, in input order, its URL the second element of its argument
\* list; two jobs for two URLs with a blank line between them.
C7_OneJobPerNonEmptyLine ==
  clicks > 0 =>
    LET t == Trimmed(url_text)
        starts == LineStarts(t)
    IN /\ Len(built) = Cardinality(starts)
       /\ \A i \in starts : built[Rank(starts, i)][2] = LineText(t, i)
       /\ url_text = <<"a", "\n", "\n", "b">> => Len(built) = 2

\* C7 amended: after a press of Download, one job per non-empty line of the
\* input whose overwrite the user did not decline, in input order, its URL
\* the second element of its argument list, and one thread started per job;
\* two jobs for two URLs with a blank line between them and none declined.
C7_OneJobPerLineNotDeclined ==
  clicks > 0 =>
    LET t == Trimmed(url_text)
        starts == LineStarts(t)
        kept == {i \in starts : asked[LineNo(t, i)] # "keep"}
    IN /\ Len(built) = Cardinality(kept)
       /\ \A i \in kept : built[Rank(kept, i)][2] = LineText(t, i)
       /\ Len(job) >= Len(built)
       /\ \A k \in 1..Len(built) :
            job[Len(job) - Len(built) + k].args = built[k]
       /\ (url_text = <<"a", "\n", "\n", "b">>
             /\ \A n \in DOMAIN asked : asked[n] # "keep")
            => /\ Len(built) = 2
               /\ built[1][2] = <<"a">>
               /\ built[2][2] = <<"b">>

\* Download was pressed on two URLs with one blank line between them, no
\* overwrite was declined, and two jobs were built
C7_Witness ==
  /\ clicks > 0
  /\ url_text = <<"a", "\n", "\n", "b">>
  /\ \A n \in DOMAIN asked : asked[n] # "keep"
  /\ Len(built) = 2

\* C8 as stated: an argument list built with audio-only set holds no "-f"
\* and holds "-x", "--audio-format" and "mp3"; one built with audio-only
\* unset holds exactly one "-f" and no "-x".
C8_AudioOnlyNoFormatSelector ==
  clicks > 0 =>
    \A k \in 1..Len(built) :
      IF form.audio_var
        THEN /\ Count(<<"-", "f">>, built[k]) = 0
             /\ Count(<<"-", "x">>, built[k]) >= 1
             /\ Count(<<"--audio-format">>, built[k]) >= 1
             /\ Count(<<"mp3">>, built[k]) >= 1
        ELSE /\ Count(<<"-", "f">>, built[k]) = 1
             /\ Count(<<"-", "x">>, built[k]) = 0

\* the texts the user typed that an argument list holds verbatim: the URL,
\* the folder, and the rate limit, proxy and template that are not blank
TypedInto(args) ==
  <<args[2], args[4]>>
    \o SelectSeq(<<Strip(form.rate_entry), Strip(form.proxy_entry),
                   Strip(form.rename_entry)>>, LAMBDA v : v # <<>>)

\* C8 amended: with audio-only set, elements 5 to 7 of an argument list are
\* "-x", "--audio-format", "mp3" and the builder adds no "-f"; with
\* audio-only unset element 5 is the one "-f" the builder adds, and it adds
\* no "-x".  Every other "-f" or "-x" of the list is a text the user typed
\* (the URL, the folder, the rate limit, the proxy, the template).
C8_BuilderAddsAudioFlagsOrOneFormat ==
  clicks > 0 =>
    \A k \in 1..Len(built) :
      LET args == built[k]
          typed == TypedInto(args)
      IN IF form.audio_var
           THEN /\ SubSeq(args, 5, 7)
                     = <<<<"-", "x">>, <<"--audio-format">>, <<"mp3">>>>
                /\ Count(<<"-", "f">>, args) = Count(<<"-", "f">>, typed)
                /\ Count(<<"-", "x">>, args) = 1 + Count(<<"-", "x">>, typed)
           ELSE /\ args[5] = <<"-", "f">>
                /\ Count(<<"-", "f">>, args) = 1 + Count(<<"-", "f">>, typed)
                /\ Count(<<"-", "x">>, args) = Count(<<"-", "x">>, typed)

\* a job was built with audio-only set, a quality other than Best and a
\* rate limit of "-f"
C8_Witness ==
  /\ clicks > 0
  /\ Len(built) > 0
  /\ form.audio_var
  /\ form.quality_var = <<"1", "0", "8", "0", "p">>
  /\ form.rate_entry = <<"-", "f">>

\* the selector the claim gives for a quality choice
SelectorOf(quality) ==
  CASE quality = <<"1", "0", "8", "0", "p">> ->
         <<"bestvideo[height<=", "1", "0", "8", "0", "]+bestaudio/best">>
    [] quality = <<"7", "2", "0", "p">> ->
         <<"bestvideo[height<=", "7", "2", "0", "]+bestaudio/best">>
    [] quality = <<"4", "8", "0", "p">> ->
         <<"bestvideo[height<=", "4", "8", "0", "]+bestaudio/best">>
    [] quality = <<"B", "e", "s", "t">> -> <<"bv*+ba/best">>

\* C9: in an argument list built with audio-only unset, the "-f" the
\* builder adds is followed by "bestvideo[height<=H]+bestaudio/best" with H
\* the number of the quality choice, and by "bv*+ba/best" for "Best".
C9_SelectorBoundsHeight ==
  (clicks > 0 /\ ~form.audio_var) =>
    \A k \in 1..Len(built) :
      /\ built[k][5] = <<"-", "f">>
      /\ built[k][6] = SelectorOf(form.quality_var)

\* a job was built with audio-only unset and quality 720p
C9_Witness ==
  /\ clicks > 0
  /\ Len(built) > 0
  /\ ~form.audio_var
  /\ form.quality_var = <<"7", "2", "0", "p">>
  /\ built[1][6] = <<"bestvideo[height<=", "7", "2", "0", "]+bestaudio/best">>

\* C10: a tick of poll_clipboard replaces the URL box by the clipboard's
\* text and remembers it exactly when the clipboard could be read, its
\* text starts with "http" and differs from the text remembered; every
\* other tick leaves both alone; every tick leaves one poll scheduled.
C10_PollReplacesOnlyNewUrl ==
  [][polls' # polls =>
       LET c == clip'
           new == /\ c.ok
                  /\ Len(c.text) >= 4
                  /\ SubSeq(c.text, 1, 4) = <<"h", "t", "t", "p">>
                  /\ c.text # clipboard_last
       IN /\ new => (url_text' = c.text /\ clipboard_last' = c.text)
          /\ ~new => (url_text' = url_text /\ clipboard_last' = clipboard_last)
          /\ poll_after' = 1]_vars

\* a tick has replaced what the user typed by a URL of the clipboard, after
\* an earlier tick had remembered another one
C10_Witness ==
  /\ clip.ok
  /\ clip.text = <<"h", "t", "t", "p", "b">>
  /\ url_text = clip.text
  /\ clipboard_last = clip.text

====
